---- MODULE Spec2Model ----
(***************************************************************************)
(* Caption / lyric synchronisation core of web/src/App.tsx: the lyric line *)
(* splitter, the cue/lyric aligner, the live cue selector and the manual   *)
(* tap-timer.                                                              *)
(*                                                                         *)
(* Strings are sequences of one-character strings, so that split, trim and *)
(* join are computed character by character.  Indices into cue lists are   *)
(* 0-based as in the source; element i of a list s is s[i + 1].            *)
(***************************************************************************)
EXTENDS Integers, Sequences, FiniteSets, TLC

VARIABLES
    lyricsInput,     \* useState("")     raw lyric text
    cues,            \* useState<Cue[]>  the main cue sequence
    manualActive,    \* useState(false)
    manualIndex,     \* useState(0)
    manualCues,      \* useState<Cue[]>
    manualMessage,   \* useState<string | null>, "none" stands for null
    currentMs,       \* useState(0)      last polled player time
    globalOffsetMs,  \* useState(0)
    parsed,          \* parseAndMap: the parser's result
    lines,           \* parseAndMap: the lyric lines
    pc,              \* parseAndMap: "parsed" before lines 1272-1273, "mapped" after;
                     \* a function under evaluation: "call" before, "return" after
    vttInput,        \* useState("")     raw caption text
    parseError,      \* useState<string | null>, "none" stands for null
    videoId,         \* useState<string | null>, <<>> stands for null
    exported,        \* the file written by exportProject with the state it was
                     \* written from, <<>> before the first export
    arg,             \* a function under evaluation: its argument
    ret,             \* a function under evaluation: its result
    editIndex,       \* useState<number | null>, <<>> stands for null
    editText         \* useState("")

vars == <<lyricsInput, cues, manualActive, manualIndex, manualCues,
          manualMessage, currentMs, globalOffsetMs, parsed, lines, pc,
          vttInput, parseError, videoId, exported, arg, ret,
          editIndex, editText>>

manualVars == <<manualActive, manualIndex, manualCues, manualMessage>>
selectVars == <<currentMs, globalOffsetMs>>
mapVars    == <<parsed, lines, pc>>
projVars   == <<vttInput, parseError, videoId, exported>>
fnVars     == <<arg, ret>>
editVars   == <<editIndex, editText>>

----------------------------------------------------------------------------
(* Bounds of the model *)

\* lyric texts of up to MaxLines lines are typed into the lyric box
MaxLines == 3
\* aligner inputs: at most MaxAlignCues parsed cues, MaxAlignLines lyric lines
MaxAlignCues == 4
MaxAlignLines == 4
\* live selection: at most MaxSelCues cues, times up to MaxSelTick seconds
MaxSelCues == 2
MaxSelTick == 2

----------------------------------------------------------------------------
(* Strings *)

Min(a, b) == IF a <= b THEN a ELSE b

\* the byte-order mark U+FEFF, written as one character
BOM == "<FEFF>"

\* the characters String.prototype.trim removes
IsSpace(ch) == ch \in {" ", "\t", "\r", "\n", BOM}

RECURSIVE TrimLeft(_)
TrimLeft(s) ==
    IF s # <<>> /\ IsSpace(Head(s)) THEN TrimLeft(Tail(s)) ELSE s

RECURSIVE TrimRight(_)
TrimRight(s) ==
    IF s # <<>> /\ IsSpace(s[Len(s)])
    THEN TrimRight(SubSeq(s, 1, Len(s) - 1))
    ELSE s

Trim(s) == TrimRight(TrimLeft(s))

\* the separator /\r?\n/ takes one carriage return before the line feed
DropCR(s) ==
    IF s # <<>> /\ s[Len(s)] = "\r" THEN SubSeq(s, 1, Len(s) - 1) ELSE s

\* the first position where pat occurs in s, 0 when there is none
IndexOf(s, pat) ==
    LET hits == {k \in 1..(Len(s) - Len(pat) + 1) :
                    SubSeq(s, k, k + Len(pat) - 1) = pat}
    IN  IF hits = {} THEN 0 ELSE CHOOSE k \in hits : \A j \in hits : k <= j

\* s.split(pat) for a non-empty string pat
RECURSIVE SplitOn(_, _)
SplitOn(s, pat) ==
    LET k == IndexOf(s, pat)
    IN  IF k = 0 THEN <<s>>
        ELSE <<SubSeq(s, 1, k - 1)>> \o SplitOn(SubSeq(s, k + Len(pat), Len(s)), pat)

\* input.split(/\r?\n/)
SplitLines(s) ==
    LET parts == SplitOn(s, <<"\n">>)
    IN  [k \in 1..Len(parts) |-> IF k < Len(parts) THEN DropCR(parts[k])
                                                    ELSE parts[k]]

\* Array.prototype.join("\n")
RECURSIVE JoinLines(_)
JoinLines(ss) ==
    IF ss = <<>> THEN <<>>
    ELSE IF Len(ss) = 1 THEN ss[1]
    ELSE ss[1] \o <<"\n">> \o JoinLines(Tail(ss))

NonEmpty(l) == Len(l) > 0

\* variant: the blank lines are not filtered out
parseLyricsLinesKeepBlank(input) ==
    LET split == SplitLines(input)
    IN  [k \in 1..Len(split) |-> Trim(split[k])]

parseLyricsLines(input) ==
    LET split   == SplitLines(input)
        trimmed == [k \in 1..Len(split) |-> Trim(split[k])]
    IN  SelectSeq(trimmed, NonEmpty)

----------------------------------------------------------------------------
(* Cues *)

\* type Cue without the optional twText
Cue(s, e, txt) == [startMs |-> s, endMs |-> e, text |-> txt]

\* variant: the lyric line is written over the caption text as well
WithTwTextOverText(c, tw) ==
    [startMs |-> c.startMs, endMs |-> c.endMs, text |-> tw, twText |-> tw]

\* { ...c, twText: tw }
WithTwText(c, tw) ==
    [startMs |-> c.startMs, endMs |-> c.endMs, text |-> c.text, twText |-> tw]

HasTwText(c) == "twText" \in DOMAIN c

----------------------------------------------------------------------------
(* Cue/lyric aligner *)

\* variant: the two counts are exchanged in the proportion
LineIndexForSwapped(idx, lineCount, cueCount) ==
    Min(lineCount - 1, (idx * cueCount) \div lineCount)

\* Math.min(lines.length - 1, Math.floor((idx * lines.length) / cues.length))
LineIndexFor(idx, lineCount, cueCount) ==
    Min(lineCount - 1, (idx * lineCount) \div cueCount)

\* variant: the two counts are exchanged in the proportion
CueIndexForSwapped(idx, cueCount, lineCount) ==
    Min(cueCount - 1, (idx * lineCount) \div cueCount)

\* Math.min(cues.length - 1, Math.floor((idx * cues.length) / lines.length))
CueIndexFor(idx, cueCount, lineCount) ==
    Min(cueCount - 1, (idx * cueCount) \div lineCount)

\* variant: the last line is never pushed
RECURSIVE GroupLinesDropsLast(_, _, _, _)
GroupLinesDropsLast(grouped, cueCount, ls, idx) ==
    IF idx >= Len(ls) - 1 THEN grouped
    ELSE LET cueIndex == CueIndexFor(idx, cueCount, Len(ls))
         IN  GroupLinesDropsLast([grouped EXCEPT ![cueIndex + 1] = Append(@, ls[idx + 1])],
                                 cueCount, ls, idx + 1)

\* lines.forEach((line, idx) => grouped[cueIndex].push(line)), from idx on
RECURSIVE GroupLines(_, _, _, _)
GroupLines(grouped, cueCount, ls, idx) ==
    IF idx >= Len(ls) THEN grouped
    ELSE LET cueIndex == CueIndexFor(idx, cueCount, Len(ls))
         IN  GroupLines([grouped EXCEPT ![cueIndex + 1] = Append(@, ls[idx + 1])],
                        cueCount, ls, idx + 1)

\* remaining branches of mapLyricsToCues, for cues.length # lines.length
mapUnequal(cs, ls) ==
    IF Len(cs) > Len(ls)
    THEN [k \in 1..Len(cs) |->
            LET idx       == k - 1
                lineIndex == LineIndexFor(idx, Len(ls), Len(cs))
            IN  WithTwText(cs[k], ls[lineIndex + 1])]
    ELSE LET grouped == GroupLines([k \in 1..Len(cs) |-> <<>>], Len(cs), ls, 0)
         IN  [k \in 1..Len(cs) |-> WithTwText(cs[k], JoinLines(grouped[k]))]

\* variant: the equal-count pairing reads one line too far (clamped)
mapLyricsToCuesShifted(cs, ls) ==
    IF Len(cs) = 0 THEN <<>>
    ELSE IF Len(ls) = 0 THEN cs
    ELSE IF Len(cs) = Len(ls)
         THEN [k \in 1..Len(cs) |-> WithTwText(cs[k], ls[Min(k + 1, Len(ls))])]
    ELSE mapUnequal(cs, ls)

mapLyricsToCues(cs, ls) ==
    IF Len(cs) = 0 THEN <<>>
    ELSE IF Len(ls) = 0 THEN cs
    ELSE IF Len(cs) = Len(ls)
         THEN [k \in 1..Len(cs) |-> WithTwText(cs[k], ls[k])]
    ELSE mapUnequal(cs, ls)

----------------------------------------------------------------------------
(* Live cue selector *)

\* variant: the end bound is exclusive
RECURSIVE FindIndexFromExclusiveEnd(_, _, _)
FindIndexFromExclusiveEnd(cs, t, idx) ==
    IF idx >= Len(cs) THEN -1
    ELSE IF t >= cs[idx + 1].startMs /\ t < cs[idx + 1].endMs THEN idx
    ELSE FindIndexFromExclusiveEnd(cs, t, idx + 1)

\* cues.findIndex((c) => t >= c.startMs && t <= c.endMs) from position idx on;
\* -1 when nothing matches
RECURSIVE FindIndexFrom(_, _, _)
FindIndexFrom(cs, t, idx) ==
    IF idx >= Len(cs) THEN -1
    ELSE IF t >= cs[idx + 1].startMs /\ t <= cs[idx + 1].endMs THEN idx
    ELSE FindIndexFrom(cs, t, idx + 1)

activeIndex ==
    LET t == currentMs + globalOffsetMs
    IN  FindIndexFrom(cues, t, 0)

----------------------------------------------------------------------------
(* Inputs *)

Chr(k) == <<"a", "b", "c", "d", "e", "f">>[k]

\* the text "a\nb\nc..." of k lines
PlainLyrics(k) == JoinLines([j \in 1..k |-> <<Chr(j)>>])

\* texts the user can put into the lyric box: k plain lines, a text of blank
\* lines only, and a text with padding, a CRLF break and blank lines
LyricInputs ==
    {PlainLyrics(k) : k \in 0..MaxLines}
    \cup {<<" ", "\n", "\t", "\r", "\n">>,
          <<" ", "a", " ", "\r", "\n", "\n", "\t", "b", " ">>}

\* what getPlayerTimeMs can return: <<>> for null, <<t>> for t milliseconds
PlayerTimes == {0, 5000, 6000, 8000}
PlayerReads == {<<>>} \cup {<<t>> : t \in PlayerTimes}

SeqsUpTo(S, n) == UNION {[1..k -> S] : k \in 0..n}

hello == <<"h", "e", "l", "l", "o">>
world == <<"w", "o", "r", "l", "d">>

\* cues a parser can return; the last one is malformed (endMs < startMs)
ParsedCues ==
    {Cue(0, 2000, hello), Cue(2000, 4000, world), Cue(4000, 1000, <<"x">>)}
AlignCueSeqs  == SeqsUpTo(ParsedCues, MaxAlignCues)
AlignLineSeqs == SeqsUpTo({<<"a">>, <<"b">>}, MaxAlignLines)

SelTimes   == {1000 * k : k \in 0..MaxSelTick}
SelCues    == {Cue(s, e, <<"x">>) : s \in SelTimes, e \in SelTimes}
SelCueSeqs == SeqsUpTo(SelCues, MaxSelCues)
\* positions of the offset slider (min -3000, max 3000, step 100)
SelOffsets == {-1000, 0, 1000}

----------------------------------------------------------------------------
(* Manual tap-timer *)

MsgNone        == "none"
MsgEnterLyrics == "Enter Taiwanese lyrics first."
MsgPlayFirst   == "Play the video first."
MsgComplete    == "Manual timing complete. Click apply."
MsgNoResults   == "No manual timing results."
MsgNoEndTime   == "Some lines have no end time. Tap more during playback."

\* lines.map((line) => ({ startMs: -1, endMs: -1, text: line, twText: line }))
InitialManualCues(ls) ==
    [k \in 1..Len(ls) |->
        [startMs |-> -1, endMs |-> -1, text |-> ls[k], twText |-> ls[k]]]

\* variant: the previous session is cleared before the lines are checked
startManualSyncClearsFirst ==
    LET ls == parseLyricsLines(lyricsInput)
    IN  IF Len(ls) = 0
        THEN /\ manualMessage' = MsgEnterLyrics
             /\ manualCues' = <<>>
             /\ manualIndex' = 0
             /\ manualActive' = FALSE
             /\ UNCHANGED <<lyricsInput, cues, selectVars, mapVars, projVars, fnVars, editVars>>
        ELSE /\ manualMessage' = MsgNone
             /\ manualCues' = InitialManualCues(ls)
             /\ manualIndex' = 0
             /\ manualActive' = TRUE
             /\ UNCHANGED <<lyricsInput, cues, selectVars, mapVars, projVars, fnVars, editVars>>

startManualSync ==
    LET ls == parseLyricsLines(lyricsInput)
    IN  IF Len(ls) = 0
        THEN /\ manualMessage' = MsgEnterLyrics
             /\ UNCHANGED <<manualCues, manualIndex, manualActive>>
             /\ UNCHANGED <<lyricsInput, cues, selectVars, mapVars, projVars, fnVars, editVars>>
        ELSE /\ manualMessage' = MsgNone
             /\ manualCues' = InitialManualCues(ls)
             /\ manualIndex' = 0
             /\ manualActive' = TRUE
             /\ UNCHANGED <<lyricsInput, cues, selectVars, mapVars, projVars, fnVars, editVars>>

\* variant: a tap closes the current cue without opening the next one
TapUpdateNoChain(prev, idx, t) ==
    IF idx + 1 \notin DOMAIN prev THEN prev
    ELSE LET current == prev[idx + 1]
         IN  IF current.startMs < 0
                 THEN [prev EXCEPT ![idx + 1].startMs = t]
             ELSE IF current.endMs < 0
                 THEN [prev EXCEPT ![idx + 1].endMs = t]
             ELSE prev

\* the updater passed to setManualCues, with manualIndex and t of the closure
TapUpdate(prev, idx, t) ==
    IF idx + 1 \notin DOMAIN prev THEN prev
    ELSE LET current == prev[idx + 1]
         IN  IF idx = 0 /\ current.startMs < 0
                 THEN [prev EXCEPT ![idx + 1].startMs = t]
             ELSE IF current.startMs < 0
                 THEN [prev EXCEPT ![idx + 1].startMs = t]
             ELSE LET closed == IF current.endMs < 0
                                THEN [prev EXCEPT ![idx + 1].endMs = t]
                                ELSE prev
                  IN  IF idx < Len(prev) - 1 /\ closed[idx + 2].startMs < 0
                      THEN [closed EXCEPT ![idx + 2].startMs = t]
                      ELSE closed

\* variant: the first tap is not told apart
isFirstTapIgnored(idx, mcs) == FALSE

\* manualIndex === 0 && (manualCues[0]?.startMs ?? -1) < 0
isFirstTap(idx, mcs) ==
    idx = 0 /\ (IF Len(mcs) > 0 THEN mcs[1].startMs ELSE -1) < 0

\* variant: the completion test is off by one
atLastIndexOffByOne(idx, mcs) == idx >= Len(mcs)

\* manualIndex >= manualCues.length - 1
atLastIndex(idx, mcs) == idx >= Len(mcs) - 1

\* The Tap button is disabled while the timer is not active; the handler keeps
\* its own guard, which is what is modelled: it may run in any state.
tapManualSync(player) ==
    IF ~manualActive \/ Len(manualCues) = 0
    THEN /\ manualMessage' = MsgNone
         /\ UNCHANGED <<manualCues, manualIndex, manualActive>>
         /\ UNCHANGED <<lyricsInput, cues, selectVars, mapVars, projVars, fnVars, editVars>>
    ELSE IF player = <<>>
    THEN /\ manualMessage' = MsgPlayFirst
         /\ UNCHANGED <<manualCues, manualIndex, manualActive>>
         /\ UNCHANGED <<lyricsInput, cues, selectVars, mapVars, projVars, fnVars, editVars>>
    ELSE LET t == player[1]
         IN  /\ manualCues' = TapUpdate(manualCues, manualIndex, t)
             /\ IF atLastIndex(manualIndex, manualCues)
                THEN /\ manualActive' = FALSE
                     /\ manualMessage' = MsgComplete
                     /\ UNCHANGED manualIndex
                ELSE IF isFirstTap(manualIndex, manualCues)
                THEN /\ manualMessage' = MsgNone
                     /\ UNCHANGED <<manualIndex, manualActive>>
                ELSE /\ manualMessage' = MsgNone
                     /\ manualIndex' = Min(Len(manualCues) - 1, manualIndex + 1)
                     /\ UNCHANGED manualActive
             /\ UNCHANGED <<lyricsInput, cues, selectVars, mapVars, projVars, fnVars, editVars>>

\* variant: a cue whose end equals its start passes
invalidAllowsEqual(mcs) ==
    \E k \in 1..Len(mcs) :
        mcs[k].startMs < 0 \/ mcs[k].endMs < 0 \/ mcs[k].endMs < mcs[k].startMs

\* manualCues.some((c) => c.startMs < 0 || c.endMs < 0 || c.endMs <= c.startMs)
invalid(mcs) ==
    \E k \in 1..Len(mcs) :
        mcs[k].startMs < 0 \/ mcs[k].endMs < 0 \/ mcs[k].endMs <= mcs[k].startMs

applyManualCues ==
    IF Len(manualCues) = 0
    THEN /\ manualMessage' = MsgNoResults
         /\ UNCHANGED <<manualCues, manualIndex, manualActive>>
         /\ UNCHANGED <<lyricsInput, cues, selectVars, mapVars, projVars, fnVars, editVars>>
    ELSE IF invalid(manualCues)
    THEN /\ manualMessage' = MsgNoEndTime
         /\ UNCHANGED <<manualCues, manualIndex, manualActive>>
         /\ UNCHANGED <<lyricsInput, cues, selectVars, mapVars, projVars, fnVars, editVars>>
    ELSE /\ manualMessage' = MsgNone
         /\ cues' = manualCues
         /\ UNCHANGED <<manualCues, manualIndex, manualActive>>
         /\ UNCHANGED <<lyricsInput, selectVars, mapVars, projVars, fnVars, editVars>>

\* onChange of the lyric textarea
setLyricsInput(text) ==
    /\ lyricsInput' = text
    /\ UNCHANGED <<cues, manualVars, selectVars, mapVars, projVars, fnVars, editVars>>

\* goToHome, restricted to the state modelled here
goToHome ==
    /\ videoId' = <<>>
    /\ vttInput' = <<>>
    /\ lyricsInput' = <<>>
    /\ cues' = <<>>
    /\ UNCHANGED <<manualVars, selectVars, mapVars, parseError, exported, fnVars, editVars>>

----------------------------------------------------------------------------
(* The application: lyric box, manual tap-timer, main cue sequence *)

Init ==
    /\ lyricsInput = <<>>
    /\ cues = <<>>
    /\ manualActive = FALSE
    /\ manualIndex = 0
    /\ manualCues = <<>>
    /\ manualMessage = MsgNone
    /\ currentMs = 0
    /\ globalOffsetMs = 0
    /\ parsed = <<>>
    /\ lines = <<>>
    /\ pc = "idle"
    /\ vttInput = <<>>
    /\ parseError = "none"
    /\ videoId = <<>>
    /\ exported = <<>>
    /\ editIndex = <<>>
    /\ editText = <<>>
    /\ arg = <<>>
    /\ ret = <<>>

SetLyrics == \E text \in LyricInputs : setLyricsInput(text)
Start     == startManualSync
Tap       == \E player \in PlayerReads : tapManualSync(player)
Apply     == applyManualCues
Home      == goToHome

Next == SetLyrics \/ Start \/ Tap \/ Apply \/ Home

Spec == Init /\ [][Next]_vars

----------------------------------------------------------------------------
(* The aligner as applied by parseAndMap to a parser result and lyric lines *)

InitAlign ==
    /\ parsed \in AlignCueSeqs
    /\ lines \in AlignLineSeqs
    /\ pc = "parsed"
    /\ lyricsInput = <<>>
    /\ cues = <<>>
    /\ manualActive = FALSE
    /\ manualIndex = 0
    /\ manualCues = <<>>
    /\ manualMessage = MsgNone
    /\ currentMs = 0
    /\ globalOffsetMs = 0
    /\ vttInput = <<>>
    /\ parseError = "none"
    /\ videoId = <<>>
    /\ exported = <<>>
    /\ editIndex = <<>>
    /\ editText = <<>>
    /\ arg = <<>>
    /\ ret = <<>>

\* const mapped = mapLyricsToCues(parsed, lines); setCues(mapped)
MapParsed ==
    /\ pc = "parsed"
    /\ Len(parsed) > 0
    /\ cues' = mapLyricsToCues(parsed, lines)
    /\ pc' = "mapped"
    /\ UNCHANGED <<lyricsInput, manualVars, selectVars, parsed, lines,
                   projVars, fnVars, editVars>>

NextAlign == MapParsed

SpecAlign == InitAlign /\ [][NextAlign]_vars

----------------------------------------------------------------------------
(* The live selector over a cue sequence, the poll tick and the offset slider *)

InitSelect ==
    /\ cues \in SelCueSeqs
    /\ currentMs = 0
    /\ globalOffsetMs = 0
    /\ lyricsInput = <<>>
    /\ manualActive = FALSE
    /\ manualIndex = 0
    /\ manualCues = <<>>
    /\ manualMessage = MsgNone
    /\ parsed = <<>>
    /\ lines = <<>>
    /\ pc = "idle"
    /\ vttInput = <<>>
    /\ parseError = "none"
    /\ videoId = <<>>
    /\ exported = <<>>
    /\ editIndex = <<>>
    /\ editText = <<>>
    /\ arg = <<>>
    /\ ret = <<>>

\* the interval callback: setCurrentMs(Math.floor(seconds * 1000))
PollTick ==
    \E t \in SelTimes :
        /\ currentMs' = t
        /\ UNCHANGED <<lyricsInput, cues, manualVars, globalOffsetMs, mapVars, projVars, fnVars, editVars>>

\* onChange of the offset slider
SetOffset ==
    \E o \in SelOffsets :
        /\ globalOffsetMs' = o
        /\ UNCHANGED <<lyricsInput, cues, manualVars, currentMs, mapVars, projVars, fnVars, editVars>>

NextSelect == PollTick \/ SetOffset

SpecSelect == InitSelect /\ [][NextSelect]_vars

----------------------------------------------------------------------------
(* Properties of the manual tap-timer, checked under Spec *)

MinOf(S) == CHOOSE x \in S : \A y \in S : x <= y
MaxOf(S) == CHOOSE x \in S : \A y \in S : x >= y

\* The trimmed non-empty lines of a text, stated by position: a line follows
\* the start of the text or a line feed, reaches to the next line feed, and
\* counts when it has a character that is no white space; its trimmed form
\* spans its first to its last such character.
LineFeeds(s) == {i \in 1..Len(s) : s[i] = "\n"}
LineEnd(s, p) == MinOf({q \in LineFeeds(s) \cup {Len(s) + 1} : q > p})
Visible(s, p) ==
    {i \in (p + 1)..(LineEnd(s, p) - 1) : s[i] \notin {" ", "\t", "\r", "\n"}}
NonBlankStarts(s) == {p \in {0} \cup LineFeeds(s) : Visible(s, p) # {}}
TrimmedLines(s) ==
    LET starts == NonBlankStarts(s)
    IN  [k \in 1..Cardinality(starts) |->
            LET p == CHOOSE q \in starts :
                         Cardinality({r \in starts : r < q}) = k - 1
            IN  SubSeq(s, MinOf(Visible(s, p)), MaxOf(Visible(s, p)))]

Unset(c) == c.startMs = -1 /\ c.endMs = -1

\* C1: Start with at least one non-blank lyric line, from any timer state,
\* leaves exactly one ManualCue per trimmed non-empty line, in line order, with
\* startMs = endMs = -1 and text = twText = the line, index 0, timer active.
C1_StartResets ==
    [][ (startManualSync /\ TrimmedLines(lyricsInput) # <<>>) =>
          LET ls == TrimmedLines(lyricsInput)
          IN  /\ manualCues' = [k \in 1..Len(ls) |->
                                  [startMs |-> -1, endMs |-> -1,
                                   text |-> ls[k], twText |-> ls[k]]]
              /\ manualIndex' = 0
              /\ manualActive' = TRUE ]_vars

\* a fresh session over the padded text, started after an earlier session was
\* completed and applied
C1_Witness ==
    /\ manualActive /\ manualIndex = 0
    /\ Len(manualCues) = 2
    /\ \A k \in 1..2 : Unset(manualCues[k])
    /\ manualCues[1].text = <<"a">> /\ manualCues[2].twText = <<"b">>
    /\ Len(lyricsInput) > 3
    /\ Len(cues) = 3

\* C2: the first successful tap after Start (index 0, cue[0].startMs unset)
\* sets cue[0].startMs = now, changes no other bound, and stays at index 0.
C2_FirstTap ==
    [][ \A t \in PlayerTimes :
          ( /\ manualActive /\ Len(manualCues) > 0
            /\ manualIndex = 0 /\ manualCues[1].startMs < 0
            /\ tapManualSync(<<t>>) ) =>
          ( /\ manualCues' = [manualCues EXCEPT ![1].startMs = t]
            /\ manualIndex' = 0 ) ]_vars

C2_Witness ==
    /\ manualActive /\ manualIndex = 0
    /\ Len(manualCues) = 3
    /\ manualCues[1].startMs = 5000 /\ manualCues[1].endMs = -1
    /\ Unset(manualCues[2]) /\ Unset(manualCues[3])

\* the cues after a tap at time t on index i whose start is set
C3_Expected(i, t) ==
    [k \in 1..Len(manualCues) |->
        IF k = i + 1
            THEN [manualCues[k] EXCEPT !.endMs = IF @ < 0 THEN t ELSE @]
        ELSE IF k = i + 2 /\ manualCues[k].startMs < 0
            THEN [manualCues[k] EXCEPT !.startMs = t]
        ELSE manualCues[k]]

ManualCue(s, e, line) ==
    [startMs |-> s, endMs |-> e, text |-> line, twText |-> line]

\* C3: a successful tap at index i whose startMs is set closes cue i (endMs =
\* now if unset), opens cue i+1 (startMs = now if it exists and is unset) and
\* moves the index to min(i+1, last); nothing else changes.  Lines [a,b] with
\* taps at 5000, 6000, 8000 give (5000,6000) and (6000,8000).
C3_ChainedTap ==
    [][ \A t \in PlayerTimes :
          ( /\ manualActive /\ Len(manualCues) > 0
            /\ manualCues[manualIndex + 1].startMs >= 0
            /\ tapManualSync(<<t>>) ) =>
          ( /\ manualCues' = C3_Expected(manualIndex, t)
            /\ manualIndex' = Min(manualIndex + 1, Len(manualCues) - 1)
            /\ ( /\ manualCues = <<ManualCue(5000, -1, <<"a">>),
                                   ManualCue(-1, -1, <<"b">>)>>
                 /\ t = 6000
                 => manualCues' = <<ManualCue(5000, 6000, <<"a">>),
                                    ManualCue(6000, -1, <<"b">>)>> )
            /\ ( /\ manualCues = <<ManualCue(5000, 6000, <<"a">>),
                                   ManualCue(6000, -1, <<"b">>)>>
                 /\ t = 8000
                 => manualCues' = <<ManualCue(5000, 6000, <<"a">>),
                                    ManualCue(6000, 8000, <<"b">>)>> ) ) ]_vars

C3_Witness ==
    /\ manualCues = <<ManualCue(5000, 6000, <<"a">>),
                      ManualCue(6000, 8000, <<"b">>)>>
    /\ manualIndex = 1
    /\ ~manualActive

\* C4: a successful tap at the last index deactivates the timer, one at any
\* other index leaves it active, and a tap while the timer is not active
\* changes neither the ManualCues nor the index.
C4_DoneAtLast ==
    [][ \A player \in PlayerReads :
          tapManualSync(player) =>
          ( /\ ( manualActive /\ Len(manualCues) > 0 /\ player # <<>> =>
                   (manualActive' <=> manualIndex < Len(manualCues) - 1) )
            /\ ( ~manualActive =>
                   UNCHANGED <<manualCues, manualIndex, manualActive>> ) ) ]_vars

C4_Witness ==
    /\ ~manualActive
    /\ manualMessage = MsgComplete
    /\ Len(manualCues) = 3
    /\ manualIndex = 2
    /\ manualCues[3].endMs >= 0

C5_Complete(mcs) ==
    /\ Len(mcs) >= 1
    /\ \A k \in 1..Len(mcs) :
          mcs[k].startMs >= 0 /\ mcs[k].endMs >= 0 /\ mcs[k].endMs > mcs[k].startMs

\* C5: Apply, in any timer state, replaces the main cues by a copy of the
\* ManualCues if and only if there is a ManualCue and every one has startMs >= 0,
\* endMs >= 0, endMs > startMs; after it every main cue has 0 <= startMs < endMs.
C5_ApplyIff ==
    [][ applyManualCues =>
          IF C5_Complete(manualCues)
          THEN /\ cues' = manualCues
               /\ \A k \in 1..Len(cues') :
                     0 <= cues'[k].startMs /\ cues'[k].startMs < cues'[k].endMs
          ELSE cues' = cues ]_vars

C5_Witness ==
    /\ cues = manualCues
    /\ Len(cues) = 3
    /\ cues[1].startMs = 0 /\ cues[3].endMs = 8000
    /\ manualMessage = MsgNone

\* C6: Start without a non-blank lyric line, Tap without a player time and
\* Apply with an incomplete or empty-interval ManualCue leave ManualCues,
\* index, active flag and main cues as they were and set a message.
C6_FailuresKeepState ==
    [][ /\ ( startManualSync /\ TrimmedLines(lyricsInput) = <<>> =>
               /\ UNCHANGED <<manualCues, manualIndex, manualActive, cues>>
               /\ manualMessage' = MsgEnterLyrics )
        /\ ( tapManualSync(<<>>) =>
               /\ UNCHANGED <<manualCues, manualIndex, manualActive, cues>>
               /\ (manualActive /\ Len(manualCues) > 0
                     => manualMessage' = MsgPlayFirst) )
        /\ ( applyManualCues /\ Len(manualCues) > 0 /\ ~C5_Complete(manualCues) =>
               /\ UNCHANGED <<manualCues, manualIndex, manualActive, cues>>
               /\ manualMessage' = MsgNoEndTime ) ]_vars

\* Start refused while a session is armed at index 1 and main cues exist
C6_Witness ==
    /\ manualMessage = MsgEnterLyrics
    /\ manualActive /\ manualIndex = 1
    /\ Len(manualCues) = 3
    /\ Len(cues) = 2

----------------------------------------------------------------------------
(* Property of the live cue selector, checked under SpecSelect *)

\* the 0-based indices of the cues whose closed interval holds time t
C7_Containing(t) ==
    {i \in 0..(Len(cues) - 1) : cues[i + 1].startMs <= t /\ t <= cues[i + 1].endMs}

\* C7: the active index is the smallest i with startMs[i] <= currentMs +
\* globalOffsetMs <= endMs[i], and -1 (none) when there is no such i; a cue
\* with endMs < startMs is never selected, an empty list gives none, and
\* [(0,1000),(1000,2000)] at effective time 1000 gives index 0.
C7_FirstContaining ==
    LET t == currentMs + globalOffsetMs
    IN  /\ activeIndex = IF C7_Containing(t) = {} THEN -1
                         ELSE MinOf(C7_Containing(t))
        /\ \A i \in 0..(Len(cues) - 1) :
              cues[i + 1].endMs < cues[i + 1].startMs => activeIndex # i
        /\ (cues = <<>> => activeIndex = -1)
        /\ ( /\ Len(cues) = 2 /\ t = 1000
             /\ cues[1].startMs = 0 /\ cues[1].endMs = 1000
             /\ cues[2].startMs = 1000 /\ cues[2].endMs = 2000
             => activeIndex = 0 )

\* both cues hold the effective time 1000, reached with a non-zero offset
C7_Witness ==
    /\ cues = <<Cue(0, 1000, <<"x">>), Cue(1000, 2000, <<"x">>)>>
    /\ currentMs = 2000 /\ globalOffsetMs = -1000
    /\ activeIndex = 0

----------------------------------------------------------------------------
(* Properties of the aligner, checked under SpecAlign *)

\* floor(num / den) stated by its bounds: the q with q*den <= num < (q+1)*den
IsFloor(q, num, den) == q * den <= num /\ num < (q + 1) * den

\* C8: with as many cues as lyric lines (n >= 1) cue i gets displayText line i;
\* cues (0,2000,hello),(2000,4000,world) with lines a,b become
\* (0,2000,hello,a),(2000,4000,world,b).
C8_EqualCounts ==
    ( pc = "mapped" /\ Len(parsed) = Len(lines) /\ Len(lines) >= 1 ) =>
    ( /\ Len(cues) = Len(lines)
      /\ \A i \in 0..(Len(lines) - 1) :
            HasTwText(cues[i + 1]) /\ cues[i + 1].twText = lines[i + 1]
      /\ ( /\ parsed = <<Cue(0, 2000, hello), Cue(2000, 4000, world)>>
           /\ lines = <<(<<"a">>), (<<"b">>)>>
           => cues = <<WithTwText(Cue(0, 2000, hello), <<"a">>),
                       WithTwText(Cue(2000, 4000, world), <<"b">>)>> ) )

C8_Witness ==
    /\ pc = "mapped"
    /\ parsed = <<Cue(0, 2000, hello), Cue(2000, 4000, world)>>
    /\ lines = <<(<<"a">>), (<<"b">>)>>
    /\ cues[1].twText = <<"a">> /\ cues[2].twText = <<"b">>

\* C9: with more cues than lines (cueCount > lineCount >= 1) cue i gets line
\* min(lineCount-1, floor(i*lineCount/cueCount)), an index within 0..lineCount-1.
C9_MoreCues ==
    ( pc = "mapped" /\ Len(parsed) > Len(lines) /\ Len(lines) >= 1 ) =>
    ( /\ Len(cues) = Len(parsed)
      /\ \A i \in 0..(Len(parsed) - 1) :
            \E q \in 0..(Len(lines) - 1) :
               /\ IsFloor(q, i * Len(lines), Len(parsed))
               /\ HasTwText(cues[i + 1])
               /\ cues[i + 1].twText = lines[Min(Len(lines) - 1, q) + 1] )

\* four cues over the lines a,b: the first two get a, the last two get b
C9_Witness ==
    /\ pc = "mapped"
    /\ Len(parsed) = 4
    /\ lines = <<(<<"a">>), (<<"b">>)>>
    /\ cues[1].twText = <<"a">> /\ cues[2].twText = <<"a">>
    /\ cues[3].twText = <<"b">> /\ cues[4].twText = <<"b">>

\* the 0-based indices of the lines that belong to cue i
C10_LinesOf(i) ==
    {j \in 0..(Len(lines) - 1) :
        \E q \in 0..(Len(lines) * Len(parsed)) :
           /\ IsFloor(q, j * Len(parsed), Len(lines))
           /\ Min(Len(parsed) - 1, q) = i}

\* the lines of a set of indices, in line order
C10_InOrder(J) ==
    [k \in 1..Cardinality(J) |->
        lines[(CHOOSE j \in J : Cardinality({h \in J : h < j}) = k - 1) + 1]]

\* C10: with more lines than cues (lineCount > cueCount >= 1) line j goes to cue
\* min(cueCount-1, floor(j*cueCount/lineCount)) and the displayText of a cue is
\* the newline-joined list, in line order, of exactly its lines.
C10_MoreLines ==
    ( pc = "mapped" /\ Len(lines) > Len(parsed) /\ Len(parsed) >= 1 ) =>
    ( /\ Len(cues) = Len(parsed)
      /\ \A i \in 0..(Len(parsed) - 1) :
            /\ HasTwText(cues[i + 1])
            /\ cues[i + 1].twText = JoinLines(C10_InOrder(C10_LinesOf(i))) )

\* three lines a,b,a over two cues: a and b joined for the first, a for the second
C10_Witness ==
    /\ pc = "mapped"
    /\ Len(parsed) = 2
    /\ lines = <<(<<"a">>), (<<"b">>), (<<"a">>)>>
    /\ cues[1].twText = <<"a", "\n", "b">>
    /\ cues[2].twText = <<"a">>

----------------------------------------------------------------------------
(* The aligner as a function of any cue sequence and any line sequence *)

\* the values every function specification leaves alone
AppAtRest ==
    /\ lyricsInput = <<>>
    /\ cues = <<>>
    /\ manualActive = FALSE
    /\ manualIndex = 0
    /\ manualCues = <<>>
    /\ manualMessage = MsgNone
    /\ currentMs = 0
    /\ globalOffsetMs = 0
    /\ parsed = <<>>
    /\ lines = <<>>
    /\ vttInput = <<>>
    /\ parseError = "none"
    /\ videoId = <<>>
    /\ exported = <<>>
    /\ editIndex = <<>>
    /\ editText = <<>>

appVars == <<lyricsInput, cues, manualVars, selectVars, parsed, lines, projVars,
            editVars>>

InitAlignFn ==
    /\ AppAtRest
    /\ arg \in [cs : AlignCueSeqs, ls : AlignLineSeqs]
    /\ ret = <<>>
    /\ pc = "call"

EvalMapLyricsToCues ==
    /\ pc = "call"
    /\ ret' = mapLyricsToCues(arg.cs, arg.ls)
    /\ pc' = "return"
    /\ UNCHANGED <<appVars, arg>>

NextAlignFn == EvalMapLyricsToCues

SpecAlignFn == InitAlignFn /\ [][NextAlignFn]_vars

\* C11: the aligner returns as many cues as it was given, in the same order,
\* with startMs, endMs and text of each unchanged; the result is empty for an
\* empty cue sequence whatever the lines, and without lines no cue gets a twText.
C11_AlignerFrame ==
    pc = "return" =>
    ( /\ Len(ret) = Len(arg.cs)
      /\ \A k \in 1..Len(arg.cs) :
            /\ ret[k].startMs = arg.cs[k].startMs
            /\ ret[k].endMs = arg.cs[k].endMs
            /\ ret[k].text = arg.cs[k].text
      /\ (arg.cs = <<>> => ret = <<>>)
      /\ (arg.ls = <<>> => \A k \in 1..Len(ret) : ~HasTwText(ret[k])) )

\* three cues, the last one malformed, over two lines
C11_Witness ==
    /\ pc = "return"
    /\ Len(arg.cs) = 3 /\ Len(arg.ls) = 2
    /\ ret[1].text = hello /\ HasTwText(ret[1])
    /\ ret[3] = WithTwText(Cue(4000, 1000, <<"x">>), <<"b">>)

----------------------------------------------------------------------------
(* Timecode codec *)

Digits == <<"0", "1", "2", "3", "4", "5", "6", "7", "8", "9">>

\* \d
IsDigit(ch) == \E d \in 1..10 : Digits[d] = ch

AllDigits(s) == \A k \in 1..Len(s) : IsDigit(s[k])

DigitValue(ch) == (CHOOSE d \in 1..10 : Digits[d] = ch) - 1

\* Number(s) for a string of decimal digits
RECURSIVE NumberOf(_)
NumberOf(s) ==
    IF s = <<>> THEN 0
    ELSE NumberOf(SubSeq(s, 1, Len(s) - 1)) * 10 + DigitValue(s[Len(s)])

\* String(n) for an integer n
RECURSIVE StringOf(_)
StringOf(n) ==
    IF n < 0 THEN <<"-">> \o StringOf(-n)
    ELSE IF n < 10 THEN <<Digits[n + 1]>>
    ELSE StringOf(n \div 10) \o <<Digits[(n % 10) + 1]>>

\* s.padStart(width, "0")
RECURSIVE PadStart(_, _)
PadStart(s, width) ==
    IF Len(s) >= width THEN s ELSE PadStart(<<"0">> \o s, width)

PadEndAtStart(s, width) == PadStart(s, width)

\* s.padEnd(width, "0")
RECURSIVE PadEnd(_, _)
PadEnd(s, width) ==
    IF Len(s) >= width THEN s ELSE PadEnd(Append(s, "0"), width)

\* a % b of JavaScript for b > 0: the sign of the result is the sign of a
JsRem(a, b) == IF a >= 0 THEN a % b ELSE -((-a) % b)

TimeShapePeriodOnly(s, hlen) ==
    /\ Len(s) >= hlen + 8 /\ Len(s) <= hlen + 10
    /\ AllDigits(SubSeq(s, 1, hlen))
    /\ s[hlen + 1] = ":"
    /\ AllDigits(SubSeq(s, hlen + 2, hlen + 3))
    /\ s[hlen + 4] = ":"
    /\ AllDigits(SubSeq(s, hlen + 5, hlen + 6))
    /\ s[hlen + 7] = "."
    /\ AllDigits(SubSeq(s, hlen + 8, Len(s)))

\* /^(\d{1,2}):(\d{2}):(\d{2})[\.,](\d{1,3})$/ with an hour field of hlen digits
TimeShape(s, hlen) ==
    /\ Len(s) >= hlen + 8 /\ Len(s) <= hlen + 10
    /\ AllDigits(SubSeq(s, 1, hlen))
    /\ s[hlen + 1] = ":"
    /\ AllDigits(SubSeq(s, hlen + 2, hlen + 3))
    /\ s[hlen + 4] = ":"
    /\ AllDigits(SubSeq(s, hlen + 5, hlen + 6))
    /\ s[hlen + 7] \in {".", ","}
    /\ AllDigits(SubSeq(s, hlen + 8, Len(s)))

\* the result is <<>> for null and <<ms>> for a number
timeToMs(raw) ==
    LET cleaned == Trim(raw)
    IN  IF \E hlen \in 1..2 : TimeShape(cleaned, hlen)
        THEN LET hlen  == CHOOSE h \in 1..2 : TimeShape(cleaned, h)
                 hh    == SubSeq(cleaned, 1, hlen)
                 mm    == SubSeq(cleaned, hlen + 2, hlen + 3)
                 ss    == SubSeq(cleaned, hlen + 5, hlen + 6)
                 msRaw == SubSeq(cleaned, hlen + 8, Len(cleaned))
                 ms    == NumberOf(PadEnd(msRaw, 3))
             IN  <<NumberOf(hh) * 3600000 + NumberOf(mm) * 60000
                     + NumberOf(ss) * 1000 + ms>>
        ELSE <<>>

formatMsBareMilli(ms) ==
    LET clamped      == IF ms > 0 THEN ms ELSE 0
        totalSeconds == clamped \div 1000
        milli        == clamped % 1000
        s            == totalSeconds % 60
        m            == (totalSeconds \div 60) % 60
        h            == totalSeconds \div 3600
    IN  PadStart(StringOf(h), 2) \o <<":">> \o PadStart(StringOf(m), 2)
           \o <<":">> \o PadStart(StringOf(s), 2)
           \o <<".">> \o StringOf(milli)

formatMs(ms) ==
    LET clamped      == IF ms > 0 THEN ms ELSE 0
        totalSeconds == clamped \div 1000
        milli        == clamped % 1000
        s            == totalSeconds % 60
        m            == (totalSeconds \div 60) % 60
        h            == totalSeconds \div 3600
    IN  PadStart(StringOf(h), 2) \o <<":">> \o PadStart(StringOf(m), 2)
           \o <<":">> \o PadStart(StringOf(s), 2)
           \o <<".">> \o PadStart(StringOf(milli), 3)

----------------------------------------------------------------------------
(* Caption parsers *)

Arrow == <<"-", "-", ">">>
WEBVTT == <<"W", "E", "B", "V", "T", "T">>

\* s.startsWith(prefix)
StartsWith(s, prefix) ==
    Len(s) >= Len(prefix) /\ SubSeq(s, 1, Len(prefix)) = prefix

\* s.includes(pat)
Includes(s, pat) == IndexOf(s, pat) # 0

CommaRemoved(s) ==
    LET k == IndexOf(s, <<",">>)
    IN  IF k = 0 THEN s ELSE SubSeq(s, 1, k - 1) \o SubSeq(s, k + 1, Len(s))

\* s.replace(",", "."): the first comma only
CommaToDot(s) ==
    LET k == IndexOf(s, <<",">>)
    IN  IF k = 0 THEN s ELSE [s EXCEPT ![k] = "."]

\* input.replace(/\uFEFF/g, "").split(/\r?\n/)
CaptionLines(input) == SplitLines(SelectSeq(input, LAMBDA ch : ch # BOM))

RECURSIVE TextEndStopsAtArrow(_, _)
TextEndStopsAtArrow(ls, i) ==
    IF i < Len(ls) /\ Trim(ls[i + 1]) # <<>> /\ ~Includes(ls[i + 1], Arrow)
    THEN TextEndStopsAtArrow(ls, i + 1) ELSE i

\* while (i < lines.length && lines[i].trim() !== "") i += 1, from i on
RECURSIVE TextEnd(_, _)
TextEnd(ls, i) ==
    IF i < Len(ls) /\ Trim(ls[i + 1]) # <<>> THEN TextEnd(ls, i + 1) ELSE i

\* the cue of the timing line at index i, as a list of no or one cue;
\* srt tells whether commas are turned into periods first
TimingCue(ls, i, srt) ==
    LET parts    == SplitOn(Trim(ls[i + 1]), Arrow)
        startRaw == Trim(parts[1])
        endRaw   == Trim(parts[2])
        startMs  == timeToMs(IF srt THEN CommaToDot(startRaw) ELSE startRaw)
        endMs    == timeToMs(SplitOn(IF srt THEN CommaToDot(endRaw) ELSE endRaw,
                                     <<" ">>)[1])
        stop     == TextEnd(ls, i + 1)
    IN  IF startMs # <<>> /\ endMs # <<>>
        THEN <<Cue(startMs[1], endMs[1], JoinLines(SubSeq(ls, i + 2, stop)))>>
        ELSE <<>>

RECURSIVE VttLoopStopsAtDrop(_, _, _)
VttLoopStopsAtDrop(ls, i, acc) ==
    IF i >= Len(ls) THEN acc
    ELSE LET line == Trim(ls[i + 1])
         IN  IF line = <<>> THEN VttLoopStopsAtDrop(ls, i + 1, acc)
             ELSE IF Includes(line, Arrow)
                  THEN IF TimingCue(ls, i, FALSE) = <<>> THEN acc
                       ELSE VttLoopStopsAtDrop(ls, TextEnd(ls, i + 1),
                                               acc \o TimingCue(ls, i, FALSE))
             ELSE VttLoopStopsAtDrop(ls, i + 1, acc)

\* the while loop of parseVtt from index i on
RECURSIVE VttLoop(_, _, _)
VttLoop(ls, i, acc) ==
    IF i >= Len(ls) THEN acc
    ELSE LET line == Trim(ls[i + 1])
         IN  IF line = <<>> THEN VttLoop(ls, i + 1, acc)
             ELSE IF Includes(line, Arrow)
                  THEN VttLoop(ls, TextEnd(ls, i + 1), acc \o TimingCue(ls, i, FALSE))
             ELSE VttLoop(ls, i + 1, acc)

parseVtt(input) ==
    LET ls == CaptionLines(input)
    IN  VttLoop(ls, IF StartsWith(ls[1], WEBVTT) THEN 1 ELSE 0, <<>>)

\* the while loop of parseSrt from index i on
RECURSIVE SrtLoop(_, _, _)
SrtLoop(ls, i, acc) ==
    IF i >= Len(ls) THEN acc
    ELSE LET line == Trim(ls[i + 1])
         IN  IF line = <<>> THEN SrtLoop(ls, i + 1, acc)
             ELSE LET j        == IF AllDigits(line) THEN i + 1 ELSE i
                      timeLine == IF j < Len(ls) THEN Trim(ls[j + 1]) ELSE <<>>
                  IN  IF ~Includes(timeLine, Arrow)
                      THEN SrtLoop(ls, j + 1, acc)
                      ELSE SrtLoop(ls, TextEnd(ls, j + 1),
                                   acc \o TimingCue(ls, j, TRUE))

parseSrt(input) == SrtLoop(CaptionLines(input), 0, <<>>)

----------------------------------------------------------------------------
(* parseAndMap *)

ErrNone         == "none"
ErrEnterCaption == "Enter VTT or SRT captions."
ErrParseFailed  == "Failed to parse captions. Check VTT/SRT format."
ErrProjectFile  == "Failed to parse project file."

\* let parsed of parseAndMap, for the trimmed caption text
ParseCaptions(trimmedVtt) ==
    IF StartsWith(trimmedVtt, WEBVTT) THEN parseVtt(trimmedVtt)
    ELSE IF Includes(trimmedVtt, Arrow)
         THEN IF Len(parseVtt(trimmedVtt)) = 0
              THEN parseSrt(trimmedVtt)
              ELSE parseVtt(trimmedVtt)
    ELSE <<>>

parseAndMapUnguarded(vttText, lyricsText) ==
    LET trimmedVtt == Trim(vttText)
        found      == ParseCaptions(trimmedVtt)
    IN  /\ parseError' = IF trimmedVtt = <<>> THEN ErrEnterCaption
                         ELSE IF Len(found) = 0 THEN ErrParseFailed ELSE ErrNone
        /\ cues' = mapLyricsToCues(found, parseLyricsLines(lyricsText))

parseAndMap(vttText, lyricsText) ==
    LET trimmedVtt == Trim(vttText)
        found      == ParseCaptions(trimmedVtt)
    IN  IF trimmedVtt = <<>>
        THEN parseError' = ErrEnterCaption /\ cues' = cues
        ELSE IF Len(found) = 0
        THEN parseError' = ErrParseFailed /\ cues' = cues
        ELSE /\ parseError' = ErrNone
             /\ cues' = mapLyricsToCues(found, parseLyricsLines(lyricsText))

applyParsing ==
    /\ parseAndMap(vttInput, lyricsInput)
    /\ UNCHANGED <<lyricsInput, manualVars, selectVars, mapVars,
                   vttInput, videoId, exported, fnVars, editVars>>

\* onChange of the caption box
setVttInput(text) ==
    /\ vttInput' = text
    /\ UNCHANGED <<lyricsInput, cues, manualVars, selectVars, mapVars,
                   parseError, videoId, exported, fnVars, editVars>>

----------------------------------------------------------------------------
(* Caption texts typed into the caption box *)

Captions ==
    [\* two cues under a header, after a byte-order mark: "\uFEFFWEBVTT\n\n0:00:01.0 --> 0:00:02.0\nhi\n\n0:00:03.5 --> 0:00:04.0 x\nyo"
     twoCues |->
        <<BOM, "W", "E", "B", "V", "T", "T", "\n", "\n", "0", ":", "0", "0",
          ":", "0", "1", ".", "0", " ", "-", "-", ">", " ", "0", ":", "0", "0",
          ":", "0", "2", ".", "0", "\n", "h", "i", "\n", "\n", "0", ":", "0",
          "0", ":", "0", "3", ".", "5", " ", "-", "-", ">", " ", "0", ":", "0",
          "0", ":", "0", "4", ".", "0", " ", "x", "\n", "y", "o">>,
     \* one SubRip block: "1\n00:00:01,000 --> 00:00:02,000\nhi\n"
     srt |->
        <<"1", "\n", "0", "0", ":", "0", "0", ":", "0", "1", ",", "0", "0",
          "0", " ", "-", "-", ">", " ", "0", "0", ":", "0", "0", ":", "0", "2",
          ",", "0", "0", "0", "\n", "h", "i", "\n">>,
     \* a header and one block with timecodes of the wrong shape: "WEBVTT\r\n\r\n00:01 --> 00:02\r\nx"
     malformed |->
        <<"W", "E", "B", "V", "T", "T", "\r", "\n", "\r", "\n", "0", "0", ":",
          "0", "1", " ", "-", "-", ">", " ", "0", "0", ":", "0", "2", "\r",
          "\n", "x">>,
     \* no header, one block without fractional parts: "0:00:01 --> 0:00:02\nx"
     arrowMalformed |->
        <<"0", ":", "0", "0", ":", "0", "1", " ", "-", "-", ">", " ", "0", ":",
          "0", "0", ":", "0", "2", "\n", "x">>,
     \* neither a header nor an arrow: "hello"
     noArrow |->
        <<"h", "e", "l", "l", "o">>,
     \* white space only: " \n"
     blank |->
        <<" ", "\n">>,
     \* two cues, (0, 2000) and (2000, 4000): "WEBVTT\n\n0:00:00.0 --> 0:00:02.0\nx\n\n0:00:02.0 --> 0:00:04.0\ny"
     edit |->
        <<"W", "E", "B", "V", "T", "T", "\n", "\n", "0", ":", "0", "0", ":",
          "0", "0", ".", "0", " ", "-", "-", ">", " ", "0", ":", "0", "0", ":",
          "0", "2", ".", "0", "\n", "x", "\n", "\n", "0", ":", "0", "0", ":",
          "0", "2", ".", "0", " ", "-", "-", ">", " ", "0", ":", "0", "0", ":",
          "0", "4", ".", "0", "\n", "y">>]

CaptionInputs ==
    {<<>>, Captions.blank, Captions.noArrow, Captions.arrowMalformed, Captions.malformed,
     Captions.srt, Captions.twoCues}

----------------------------------------------------------------------------
(* The caption box, the lyric box and the parse button *)

SetVtt == \E text \in CaptionInputs : setVttInput(text)
Parse  == applyParsing

NextParse == SetVtt \/ SetLyrics \/ Parse

SpecParse == Init /\ [][NextParse]_vars

----------------------------------------------------------------------------
(* Parsing the caption box *)

\* the caption texts of the three ways to end with no parsed cue: blank,
\* neither header nor arrow, every timing block malformed
C12_Unparseable ==
    {<<>>, Captions.blank, Captions.noArrow, Captions.arrowMalformed, Captions.malformed}

\* C12: a parse-and-map run that ends with zero parsed cues (blank caption
\* text, text with neither header nor arrow, or only malformed timing blocks)
\* reports a failure and leaves the main cue sequence exactly as it was.
C12_FailureKeepsCues ==
    [][(Parse /\ (vttInput \in C12_Unparseable
                    \/ ParseCaptions(Trim(vttInput)) = <<>>))
        => (/\ parseError' \in {ErrEnterCaption, ErrParseFailed}
            /\ parseError' = (IF Trim(vttInput) = <<>> THEN ErrEnterCaption
                                                       ELSE ErrParseFailed)
            /\ cues' = cues)]_vars

C12_Witness ==
    /\ vttInput = Captions.malformed
    /\ parseError = ErrParseFailed
    /\ Len(cues) = 2
    /\ HasTwText(cues[1])

\* the cues cs without their translated text
Untranslated(cs) ==
    [k \in 1..Len(cs) |-> Cue(cs[k].startMs, cs[k].endMs, cs[k].text)]

\* the parse button is pressed on text that has an arrow and no header
C13_ParseHeaderless ==
    /\ Parse
    /\ ~StartsWith(Trim(vttInput), WEBVTT)
    /\ Includes(Trim(vttInput), Arrow)

\* cs is what the press parsed: no cue and a failure, or the new cue list
C13_ParsedAs(cs) ==
    IF cs = <<>>
    THEN parseError' = ErrParseFailed /\ cues' = cues
    ELSE parseError' = ErrNone /\ Untranslated(cues') = cs

\* C13 as stated: header-less text with an arrow goes to the VTT parser first
\* and to the SRT parser only if that yields no cue, and for the SubRip
\* example the VTT parser yields no cue, so the fallback is taken, and the
\* result is the one cue (1000, 2000, "hi").
C13_FallbackTaken ==
    [][C13_ParseHeaderless
        => LET t == Trim(vttInput)
           IN  /\ C13_ParsedAs(IF parseVtt(t) # <<>> THEN parseVtt(t)
                                                     ELSE parseSrt(t))
               /\ vttInput = Captions.srt
                    => /\ parseVtt(t) = <<>>
                       /\ Untranslated(cues') = <<Cue(1000, 2000, <<"h", "i">>)>>]_vars

\* C13 amended: header-less text with an arrow goes to the VTT parser first
\* and to the SRT parser only if that yields no cue; the SubRip example is
\* already parsed by the VTT parser, whose timecodes accept the comma, so the
\* fallback is not taken, and the result is the one cue (1000, 2000, "hi").
C13_VttFirst ==
    [][C13_ParseHeaderless
        => LET t == Trim(vttInput)
           IN  /\ C13_ParsedAs(IF parseVtt(t) # <<>> THEN parseVtt(t)
                                                     ELSE parseSrt(t))
               /\ vttInput = Captions.srt
                    => /\ parseVtt(t) = <<Cue(1000, 2000, <<"h", "i">>)>>
                       /\ Untranslated(cues') = <<Cue(1000, 2000, <<"h", "i">>)>>]_vars

C13_Witness ==
    /\ vttInput = Captions.srt
    /\ parseError = ErrNone
    /\ Len(cues) = 1
    /\ cues[1].startMs = 1000 /\ cues[1].endMs = 2000
    /\ cues[1].text = <<"h", "i">>
    /\ HasTwText(cues[1])

----------------------------------------------------------------------------
(* parseVtt on caption texts built from timing blocks *)

MaxBlocks == 3

Timecodes ==
    [\* a one-digit hour and one fractional digit: "0:00:01.0"
     one |->
        <<"0", ":", "0", "0", ":", "0", "1", ".", "0">>,
     \* a comma and two fractional digits: "00:00:02,50"
     twoAndHalf |->
        <<"0", "0", ":", "0", "0", ":", "0", "2", ",", "5", "0">>,
     \* all fields at full width: "01:02:03.456"
     hour |->
        <<"0", "1", ":", "0", "2", ":", "0", "3", ".", "4", "5", "6">>,
     \* no fractional part: "0:00:03"
     noFraction |->
        <<"0", ":", "0", "0", ":", "0", "3">>,
     \* no hour field: "0:03.0"
     twoFields |->
        <<"0", ":", "0", "3", ".", "0">>,
     \* a one-digit minute: "0:0:04.0"
     shortMinute |->
        <<"0", ":", "0", ":", "0", "4", ".", "0">>,
     \* the example with one fractional digit: "00:00:01.5"
     shortFraction |->
        <<"0", "0", ":", "0", "0", ":", "0", "1", ".", "5">>]

\* two blocks with valid timecodes, the second with two text lines, and
\* three blocks with a timecode of the wrong shape
TimingBlocks ==
    {[start |-> Timecodes.one, end |-> Timecodes.twoAndHalf, text |-> <<"a">>],
     [start |-> Timecodes.hour, end |-> Timecodes.one, text |-> <<"b", "\n", "c">>],
     [start |-> Timecodes.noFraction, end |-> Timecodes.twoAndHalf, text |-> <<"d">>],
     [start |-> Timecodes.one, end |-> Timecodes.twoFields, text |-> <<"e">>],
     [start |-> Timecodes.shortMinute, end |-> Timecodes.noFraction, text |-> <<"f">>]}

\* the text of one block: the timing line and the text lines
BlockText(b) ==
    b.start \o <<" ">> \o Arrow \o <<" ">> \o b.end \o <<"\n">> \o b.text

\* blocks separated by one blank line
RECURSIVE BlocksText(_)
BlocksText(bs) ==
    IF bs = <<>> THEN <<>>
    ELSE IF Len(bs) = 1 THEN BlockText(bs[1])
    ELSE BlockText(bs[1]) \o <<"\n", "\n">> \o BlocksText(Tail(bs))

CaptionText(doc) ==
    (IF doc.header THEN WEBVTT \o <<"\n", "\n">> ELSE <<>>) \o BlocksText(doc.blocks)

InitVtt ==
    /\ AppAtRest
    /\ arg \in [header : BOOLEAN, blocks : SeqsUpTo(TimingBlocks, MaxBlocks)]
    /\ ret = <<>>
    /\ pc = "call"

EvalParseVtt ==
    /\ pc = "call"
    /\ ret' = parseVtt(CaptionText(arg))
    /\ pc' = "return"
    /\ UNCHANGED <<appVars, arg>>

NextVtt == EvalParseVtt

SpecVtt == InitVtt /\ [][NextVtt]_vars

\* the timecodes of the accepted shape with their milliseconds
C14_Accepted == {<<Timecodes.one, 1000>>, <<Timecodes.twoAndHalf, 2500>>, <<Timecodes.hour, 3723456>>}

\* the timecodes of another shape
C14_Malformed == {Timecodes.noFraction, Timecodes.twoFields, Timecodes.shortMinute, <<>>, <<"x">>}

C14_IsAccepted(tc) == \E p \in C14_Accepted : p[1] = tc

C14_Ms(tc) == (CHOOSE p \in C14_Accepted : p[1] = tc)[2]

\* the cues of the blocks whose two timecodes are accepted, in input order
RECURSIVE C14_Kept(_)
C14_Kept(bs) ==
    IF bs = <<>> THEN <<>>
    ELSE (IF C14_IsAccepted(bs[1].start) /\ C14_IsAccepted(bs[1].end)
          THEN <<Cue(C14_Ms(bs[1].start), C14_Ms(bs[1].end), bs[1].text)>>
          ELSE <<>>) \o C14_Kept(Tail(bs))

\* C14: a timecode of another shape than the accepted one, such as one without
\* fractional part, parses to null, and parseVtt emits no cue for a block with
\* a null start or end while every later block with two valid timecodes still
\* gives its cue, in input order.
C14_DropAndContinue ==
    /\ \A tc \in C14_Malformed : timeToMs(tc) = <<>>
    /\ \A p \in C14_Accepted : timeToMs(p[1]) = <<p[2]>>
    /\ pc = "return" => ret = C14_Kept(arg.blocks)

C14_Witness ==
    /\ pc = "return"
    /\ Len(arg.blocks) = 3
    /\ arg.blocks[1].start = Timecodes.noFraction
    /\ arg.blocks[2].end = Timecodes.twoFields
    /\ arg.blocks[3].start = Timecodes.hour
    /\ ret = <<Cue(3723456, 1000, <<"b", "\n", "c">>)>>

----------------------------------------------------------------------------
(* timeToMs and formatMs on timecodes built from their fields *)

\* a timecode text: h in hw digits, m and s in two, f in fw
TimecodeText(t) ==
    PadStart(StringOf(t.h), t.hw) \o <<":">> \o PadStart(StringOf(t.m), 2)
        \o <<":">> \o PadStart(StringOf(t.s), 2)
        \o <<t.sep>> \o PadStart(StringOf(t.fv), t.fw)

\* fractional parts as <<number of digits, value>>: "5", "0", "12", "05",
\* "456", "007"
Fractions == {<<1, 5>>, <<1, 0>>, <<2, 12>>, <<2, 5>>, <<3, 456>>, <<3, 7>>}

\* hour fields as <<number of digits, value>>
HourFields == {<<1, 0>>, <<1, 7>>, <<2, 0>>, <<2, 1>>, <<2, 12>>, <<2, 99>>}

TimecodeArgs ==
    {[op |-> "parse", h |-> hf[2], hw |-> hf[1], m |-> m, s |-> s,
      sep |-> sep, fv |-> f[2], fw |-> f[1]] :
        hf \in HourFields, m \in {0, 2, 59, 99}, s \in {0, 1, 3, 59},
        sep \in {".", ","}, f \in Fractions}

\* whole milliseconds up to 277:59:59.999
MsArgs ==
    {[op |-> "format", x |-> h * 3600000 + m * 60000 + s * 1000 + ms] :
        h \in {0, 1, 10, 99, 100, 277}, m \in {0, 59}, s \in {0, 59},
        ms \in {0, 5, 50, 999}}

InitTimecode ==
    /\ AppAtRest
    /\ arg \in TimecodeArgs \cup MsArgs
    /\ ret = <<>>
    /\ pc = "call"

EvalTimeToMs ==
    /\ pc = "call"
    /\ arg.op = "parse"
    /\ ret' = timeToMs(TimecodeText(arg))
    /\ pc' = "return"
    /\ UNCHANGED <<appVars, arg>>

EvalRoundTrip ==
    /\ pc = "call"
    /\ arg.op = "format"
    /\ ret' = timeToMs(formatMs(arg.x))
    /\ pc' = "return"
    /\ UNCHANGED <<appVars, arg>>

NextTimecode == EvalTimeToMs \/ EvalRoundTrip

SpecTimecode == InitTimecode /\ [][NextTimecode]_vars

\* the hour field of an accepted timecode has at most two digits
HourLimit == 100

\* C15 as stated: parsing the formatted text of x gives x back, for every
\* non-negative whole number of milliseconds x, those of 100 hours and more
\* included.
C15_RoundTripAll ==
    (pc = "return" /\ arg.op = "format") => ret = <<arg.x>>

\* C15 amended: parsing the formatted text of x gives x back for every
\* non-negative whole number of milliseconds x below 100 hours; from 100
\* hours on the hour field has three digits and the text parses to null.
C15_RoundTripBelow100h ==
    (pc = "return" /\ arg.op = "format")
        => IF arg.x < HourLimit * 3600000 THEN ret = <<arg.x>> ELSE ret = <<>>

C15_Witness ==
    /\ pc = "return"
    /\ arg.op = "format"
    /\ arg.x = 99 * 3600000 + 59 * 60000 + 59 * 1000 + 5
    /\ ret = <<359999005>>

\* 10 to the power n
RECURSIVE C16_Pow10(_)
C16_Pow10(n) == IF n = 0 THEN 1 ELSE 10 * C16_Pow10(n - 1)

\* C16: an accepted timecode H(H):MM:SS, '.' or ',', and one to three
\* fractional digits parses to H*3600000 + M*60000 + S*1000 + F, with F the
\* fractional digits padded with zeros on the right to three digits;
\* 01:02:03.456 gives 3723456 and 00:00:01.5 gives 1500.
C16_ParsedValue ==
    /\ timeToMs(Timecodes.hour) = <<3723456>>
    /\ timeToMs(Timecodes.shortFraction) = <<1500>>
    /\ (pc = "return" /\ arg.op = "parse")
         => ret = <<arg.h * 3600000 + arg.m * 60000 + arg.s * 1000
                      + arg.fv * C16_Pow10(3 - arg.fw)>>

C16_Witness ==
    /\ pc = "return"
    /\ arg.op = "parse"
    /\ TimecodeText(arg) = <<"7", ":", "9", "9", ":", "5", "9", ",", "0", "5">>
    /\ ret = <<7 * 3600000 + 99 * 60000 + 59 * 1000 + 50>>

----------------------------------------------------------------------------
(* Project files: JSON values as far as importProject looks at them *)

Undefined       == [t |-> "undefined"]
JsonNull        == [t |-> "null"]
\* a value of type t ("string", "number", "array" or "object") with content v
Json(t, v)      == [t |-> t, v |-> v]

\* a file whose text JSON.parse rejects
MalformedFile == [t |-> "malformed"]

\* the number NaN, apart from every time and offset of the model
NaN == -999999999

\* data?.key and c.key: undefined unless the value is an object with the key
Field(data, key) ==
    IF data.t = "object" /\ key \in DOMAIN data.v THEN data.v[key] ELSE Undefined

\* Number(v) for undefined, null, numbers and strings of digits
JsNumber(v) ==
    IF v.t = "number" THEN v.v
    ELSE IF v.t = "null" THEN 0
    ELSE IF v.t = "string" /\ v.v # <<>> /\ AllDigits(v.v) THEN NumberOf(v.v)
    ELSE NaN

\* String(v ?? "") for undefined, null, strings and numbers
JsStringOrEmpty(v) ==
    IF v.t = "string" THEN v.v
    ELSE IF v.t = "number" THEN StringOf(v.v)
    ELSE <<>>

\* JSON.stringify of a number: NaN is written as null
StringifyNumber(n) == IF n = NaN THEN JsonNull ELSE Json("number", n)

\* JSON.stringify of a cue: a key with the value undefined is left out
StringifyCue(c) ==
    IF HasTwText(c)
    THEN Json("object", [startMs |-> StringifyNumber(c.startMs),
                     endMs |-> StringifyNumber(c.endMs),
                     text |-> Json("string", c.text),
                     twText |-> Json("string", c.twText)])
    ELSE Json("object", [startMs |-> StringifyNumber(c.startMs),
                     endMs |-> StringifyNumber(c.endMs),
                     text |-> Json("string", c.text)])

\* the payload of exportProject as JSON.parse reads it back
ProjectFile ==
    Json("object", [videoId |-> IF videoId = <<>> THEN JsonNull
                                              ELSE Json("string", videoId[1]),
                vttInput |-> Json("string", vttInput),
                lyricsInput |-> Json("string", lyricsInput),
                globalOffsetMs |-> StringifyNumber(globalOffsetMs),
                cues |-> Json("array", [k \in 1..Len(cues) |-> StringifyCue(cues[k])])])

\* the exported file, with the exporter's state next to it for comparison
exportProject ==
    /\ exported' = <<[file |-> ProjectFile,
                      at |-> [cues |-> cues, globalOffsetMs |-> globalOffsetMs,
                              vttInput |-> vttInput, lyricsInput |-> lyricsInput]]>>
    /\ UNCHANGED <<lyricsInput, cues, manualVars, selectVars, mapVars,
                   vttInput, parseError, videoId, fnVars, editVars>>

\* the callback of data.cues.map
ImportedCue(c) ==
    LET base == Cue(JsNumber(Field(c, "startMs")), JsNumber(Field(c, "endMs")),
                    JsStringOrEmpty(Field(c, "text")))
    IN  IF Field(c, "twText").t = "string"
        THEN WithTwText(base, Field(c, "twText").v)
        ELSE base

\* reading a property of null or undefined throws a TypeError
MapThrows(items) == \E k \in 1..Len(items) : items[k].t \in {"null", "undefined"}

\* the setters called before an exception have taken effect when it is caught
importProject(file) ==
    IF file = MalformedFile
    THEN /\ parseError' = ErrProjectFile
         /\ UNCHANGED <<lyricsInput, cues, manualVars, selectVars, mapVars,
                        vttInput, videoId, exported, fnVars, editVars>>
    ELSE LET vid == Field(file, "videoId")
             vtt == Field(file, "vttInput")
             lyr == Field(file, "lyricsInput")
             off == Field(file, "globalOffsetMs")
             cs  == Field(file, "cues")
         IN  /\ videoId' = IF vid.t = "string" THEN <<vid.v>> ELSE videoId
             /\ vttInput' = IF vtt.t = "string" THEN vtt.v ELSE vttInput
             /\ lyricsInput' = IF lyr.t = "string" THEN lyr.v ELSE lyricsInput
             /\ globalOffsetMs' = IF off.t = "number" THEN off.v ELSE globalOffsetMs
             /\ IF cs.t = "array"
                THEN IF MapThrows(cs.v)
                     THEN parseError' = ErrProjectFile /\ cues' = cues
                     ELSE /\ cues' = [k \in 1..Len(cs.v) |-> ImportedCue(cs.v[k])]
                          /\ parseError' = parseError
                ELSE IF vtt.t = "string"
                     THEN parseAndMap(vtt.v, JsStringOrEmpty(lyr))
                     ELSE UNCHANGED <<cues, parseError>>
             /\ UNCHANGED <<manualVars, currentMs, mapVars, exported, fnVars, editVars>>

----------------------------------------------------------------------------
(* Export and import of project files *)

Files ==
    [\* {"videoId":"v2","vttInput":<Captions.srt>,"lyricsInput":"a","globalOffsetMs":300,
     \*  "cues":[{"startMs":1000,"endMs":2000,"text":"hi","twText":"a"},
     \*          {"startMs":2000,"endMs":3000,"text":"yo"}]}
     full |->
        Json("object", [videoId |-> Json("string", "v2"),
                    vttInput |-> Json("string", Captions.srt),
                    lyricsInput |-> Json("string", <<"a">>),
                    globalOffsetMs |-> Json("number", 300),
                    cues |-> Json("array", <<
                        Json("object", [startMs |-> Json("number", 1000),
                                    endMs |-> Json("number", 2000),
                                    text |-> Json("string", <<"h", "i">>),
                                    twText |-> Json("string", <<"a">>)]),
                        Json("object", [startMs |-> Json("number", 2000),
                                    endMs |-> Json("number", 3000),
                                    text |-> Json("string", <<"y", "o">>)])>>)]),
     \* {"videoId":"v3","vttInput":"hello","lyricsInput":"b","globalOffsetMs":-200,
     \*  "cues":[{"startMs":0,"endMs":500,"text":"x"},null]}
     nullEntry |->
        Json("object", [videoId |-> Json("string", "v3"),
                    vttInput |-> Json("string", Captions.noArrow),
                    lyricsInput |-> Json("string", <<"b">>),
                    globalOffsetMs |-> Json("number", -200),
                    cues |-> Json("array", <<
                        Json("object", [startMs |-> Json("number", 0),
                                    endMs |-> Json("number", 500),
                                    text |-> Json("string", <<"x">>)]),
                        JsonNull>>)]),
     \* {"cues":[5]}
     numberEntry |->
        Json("object", [cues |-> Json("array", <<Json("number", 5)>>)]),
     \* {"vttInput":<Captions.srt>,"lyricsInput":"a\nb"}
     noCues |->
        Json("object", [vttInput |-> Json("string", Captions.srt),
                    lyricsInput |-> Json("string", <<"a", "\n", "b">>)]),
     \* {"vttInput":<Captions.srt>,"lyricsInput":"b","cues":[]}
     emptyCues |->
        Json("object", [vttInput |-> Json("string", Captions.srt),
                    lyricsInput |-> Json("string", <<"b">>),
                    cues |-> Json("array", <<>>)]),
     \* 5
     notObject |->
        Json("number", 5)]

ProjectFiles ==
    {MalformedFile, Files.notObject, Files.numberEntry, Files.nullEntry,
     Files.emptyCues, Files.noCues, Files.full}

Import         == \E file \in ProjectFiles : importProject(file)
ImportExported == exported # <<>> /\ importProject(exported[1].file)
Export         == exportProject

NextProject == Import \/ ImportExported \/ Export \/ Parse \/ Home

SpecProject == Init /\ [][NextProject]_vars

----------------------------------------------------------------------------
(* Import and export *)

\* the files that are not project snapshots: text that is not JSON, a value
\* that is not an object, a cue list with a number in it, one with null in it
C17_WrongShape == {MalformedFile, Files.notObject, Files.numberEntry, Files.nullEntry}

\* C17: importing malformed JSON or a file of the wrong shape, such as a cue
\* list with an entry that is not an object, sets the error message and leaves
\* video id, caption text, lyric text, global offset and cues as they were.
C17_AllOrNothing ==
    [][\A file \in C17_WrongShape :
          importProject(file)
              => /\ parseError' = ErrProjectFile
                 /\ UNCHANGED <<videoId, vttInput, lyricsInput, globalOffsetMs, cues>>]_vars

\* the files an import step can read
C18_Files == ProjectFiles \cup {exported[k].file : k \in 1..Len(exported)}

\* C18: an import of a snapshot with caption text whose cue list is absent or
\* empty leaves as cues the result of parsing that caption text and aligning
\* it with the snapshot's lyric text.
C18_Regenerated ==
    [][\A file \in C18_Files :
          (/\ importProject(file)
           /\ Field(file, "vttInput").t = "string"
           /\ ParseCaptions(Trim(Field(file, "vttInput").v)) # <<>>
           /\ Field(file, "cues") \in {Undefined, Json("array", <<>>)})
              => cues' = mapLyricsToCues(
                             ParseCaptions(Trim(Field(file, "vttInput").v)),
                             parseLyricsLines(JsStringOrEmpty(Field(file, "lyricsInput"))))]_vars

\* C19: importing the file written by Export gives back the cues, the global
\* offset, the caption text and the lyric text of the moment of the export,
\* whatever the state the file is imported into.
C19_RoundTrip ==
    [][ImportExported
          => /\ cues' = exported[1].at.cues
             /\ globalOffsetMs' = exported[1].at.globalOffsetMs
             /\ vttInput' = exported[1].at.vttInput
             /\ lyricsInput' = exported[1].at.lyricsInput]_vars

----------------------------------------------------------------------------
(* LRC export *)

\* str.replace(/\n+/g, " ")
RECURSIVE LineFeedsToSpace(_)
LineFeedsToSpace(str) ==
    IF str = <<>> THEN <<>>
    ELSE IF Head(str) = "\n"
         THEN IF Len(str) > 1 /\ str[2] = "\n"
              THEN LineFeedsToSpace(Tail(str))
              ELSE <<" ">> \o LineFeedsToSpace(Tail(str))
         ELSE <<Head(str)>> \o LineFeedsToSpace(Tail(str))

\* c.twText ?? c.text
DisplayText(c) == IF HasTwText(c) THEN c.twText ELSE c.text

\* one line of toLrc
LrcLine(c) ==
    LET floorSeconds == c.startMs \div 1000
        totalSeconds == IF floorSeconds > 0 THEN floorSeconds ELSE 0
        cs           == JsRem(c.startMs, 1000) \div 10
        m            == totalSeconds \div 60
        s            == totalSeconds % 60
    IN  <<"[">> \o PadStart(StringOf(m), 2) \o <<":">> \o PadStart(StringOf(s), 2)
            \o <<".">> \o PadStart(StringOf(cs), 2) \o <<"]">>
            \o LineFeedsToSpace(DisplayText(c))

toLrc(cs) == JoinLines([k \in 1..Len(cs) |-> LrcLine(cs[k])]) \o <<"\n">>

----------------------------------------------------------------------------
(* Nudging and text editing *)

\* the step of the nudge buttons
NudgeStepMs == 100

MaxNudgeSteps == 2

adjustCurrentCueStartOnly(deltaMs) ==
    /\ cues' = IF activeIndex < 0 THEN cues
               ELSE [cues EXCEPT ![activeIndex + 1] =
                        [@ EXCEPT !.startMs = @ + deltaMs]]
    /\ UNCHANGED <<lyricsInput, manualVars, selectVars, mapVars, projVars,
                   fnVars, editVars>>

adjustCurrentCue(deltaMs) ==
    /\ cues' = IF activeIndex < 0 THEN cues
               ELSE [cues EXCEPT ![activeIndex + 1] =
                        [@ EXCEPT !.startMs = @ + deltaMs, !.endMs = @ + deltaMs]]
    /\ UNCHANGED <<lyricsInput, manualVars, selectVars, mapVars, projVars,
                   fnVars, editVars>>

selectEdit(idx) ==
    /\ editIndex' = <<idx>>
    /\ editText' = DisplayText(cues[idx + 1])
    /\ UNCHANGED <<lyricsInput, cues, manualVars, selectVars, mapVars, projVars,
                   fnVars>>

\* onChange of the text box of the edit dialog
setEditText(text) ==
    /\ editText' = text
    /\ UNCHANGED <<lyricsInput, cues, manualVars, selectVars, mapVars, projVars,
                   fnVars, editIndex>>

applyEdit ==
    IF editIndex = <<>> THEN UNCHANGED vars
    ELSE /\ cues' = [k \in 1..Len(cues) |->
                        IF k - 1 = editIndex[1] THEN WithTwText(cues[k], editText)
                                                ELSE cues[k]]
         /\ editIndex' = <<>>
         /\ UNCHANGED <<lyricsInput, manualVars, selectVars, mapVars, projVars,
                        fnVars, editText>>

\* the lyric lines of the two cues
EditLyrics == <<"a", "\n", "b">>

\* the text typed into the edit dialog: two lines with a blank one between
EditTexts == {<<"d", "\n", "\n", "e">>}

\* the cues of Captions.edit as parsed
EditParsed == parseVtt(Captions.edit)

\* the nudged cue stays within MaxNudgeSteps steps of its parsed start; the
\* buttons can be pressed while no cue is active
NudgeInRange(deltaMs) ==
    IF activeIndex < 0 THEN TRUE
    ELSE /\ activeIndex < Len(EditParsed)
         /\ LET moved == cues[activeIndex + 1].startMs + deltaMs
                           - EditParsed[activeIndex + 1].startMs
            IN  /\ moved <= MaxNudgeSteps * NudgeStepMs
                /\ -moved <= MaxNudgeSteps * NudgeStepMs

TypeCaption == setVttInput(Captions.edit)
TypeLyrics  == setLyricsInput(EditLyrics)
Nudge       == \E deltaMs \in {-NudgeStepMs, NudgeStepMs} :
                   NudgeInRange(deltaMs) /\ adjustCurrentCue(deltaMs)
SelectEdit  == \E idx \in 0..(Len(cues) - 1) : editIndex = <<>> /\ selectEdit(idx)
SetEditText == \E text \in EditTexts : editIndex # <<>> /\ setEditText(text)
ApplyEdit   == editIndex # <<>> /\ applyEdit

NextEdit ==
    TypeCaption \/ TypeLyrics \/ Parse \/ PollTick \/ SetOffset \/ Nudge
        \/ SelectEdit \/ SetEditText \/ ApplyEdit

SpecEdit == Init /\ [][NextEdit]_vars

\* the LRC line the format rule gives for cue c
C20_Line(c) ==
    <<"[">> \o PadStart(StringOf(c.startMs \div 60000), 2)
        \o <<":">> \o PadStart(StringOf((c.startMs \div 1000) % 60), 2)
        \o <<".">> \o PadStart(StringOf((c.startMs % 1000) \div 10), 2)
        \o <<"]">> \o LineFeedsToSpace(DisplayText(c))

\* C20: for every cue sequence the application reaches by parse and align,
\* nudges and text edits, the LRC export has one line [mm:ss.cc]text per cue,
\* with cc = floor((startMs mod 1000) / 10) in two digits, ss in two digits
\* and mm = floor(startMs / 60000) in at least two digits; the cues
\* (0, 2000, a) and (2000, 4000, b) give "[00:00.00]a" and "[00:02.00]b".
C20_LrcFormat ==
    /\ toLrc(<<Cue(0, 2000, <<"a">>), Cue(2000, 4000, <<"b">>)>>)
         = <<"[", "0", "0", ":", "0", "0", ".", "0", "0", "]", "a", "\n",
             "[", "0", "0", ":", "0", "2", ".", "0", "0", "]", "b", "\n">>
    /\ toLrc(cues) = JoinLines([k \in 1..Len(cues) |-> C20_Line(cues[k])]) \o <<"\n">>
    /\ \A k \in 1..Len(cues) :
          /\ Len(LrcLine(cues[k])) >= 10
          /\ AllDigits(SubSeq(LrcLine(cues[k]), 8, 9))
          /\ ~(\E j \in 1..Len(LrcLine(cues[k])) : LrcLine(cues[k])[j] = "\n")

\* C21: in every state reached by parse and align, nudges, text edits, changes
\* of the global offset and poll ticks, every cue of the main list has
\* startMs >= 0.
C21_StartNonNegative == \A k \in 1..Len(cues) : cues[k].startMs >= 0

\* the cue the selector rule names at the effective time: the first one whose
\* window holds it, 0-based, -1 when there is none
C22_Active ==
    IF C7_Containing(currentMs + globalOffsetMs) = {} THEN -1
    ELSE MinOf(C7_Containing(currentMs + globalOffsetMs))

\* C22: a nudge by delta adds delta to startMs and endMs of exactly the active
\* cue and leaves every other cue, the number and order of the cues, every
\* cue's texts and the global offset unchanged; with no active cue a nudge
\* changes nothing; a change of the global offset and a poll tick never change
\* the stored cue times.
C22_NudgeShiftsActiveOnly ==
    [][ /\ \A deltaMs \in {-NudgeStepMs, NudgeStepMs} :
              adjustCurrentCue(deltaMs) =>
                  /\ Len(cues') = Len(cues)
                  /\ globalOffsetMs' = globalOffsetMs
                  /\ currentMs' = currentMs
                  /\ \A k \in 1..Len(cues) :
                        IF k - 1 = C22_Active
                        THEN /\ cues'[k].startMs = cues[k].startMs + deltaMs
                             /\ cues'[k].endMs = cues[k].endMs + deltaMs
                             /\ [cues'[k] EXCEPT !.startMs = cues[k].startMs,
                                                 !.endMs = cues[k].endMs] = cues[k]
                        ELSE cues'[k] = cues[k]
        /\ (PollTick \/ SetOffset) => cues' = cues ]_vars

\* the first of two cues was nudged forward once while the second stayed
C22_Witness ==
    /\ Len(cues) = 2
    /\ cues[1].startMs = NudgeStepMs /\ cues[1].endMs = 2000 + NudgeStepMs
    /\ cues[2].startMs = 2000 /\ cues[2].endMs = 4000
    /\ globalOffsetMs # 0

----------------------------------------------------------------------------
(* The caption parsers as functions of any sequence of lines *)

MaxCaptionLines == 3

\* the lines a caption text is made of: a blank line, a counter, a text
\* line, two timing lines of the accepted shape (the second with commas and a
\* setting after the end), a timing line with a malformed start, and a line
\* that starts like the header and holds the arrow
CaptionLineKinds ==
    {<<>>, <<"1">>, <<"x">>,
     Timecodes.one \o <<" ">> \o Arrow \o <<" ">> \o Timecodes.shortFraction,
     Timecodes.twoAndHalf \o <<" ">> \o Arrow \o <<" ">> \o Timecodes.hour \o <<" ", "y">>,
     Timecodes.twoFields \o <<" ">> \o Arrow \o <<" ">> \o Timecodes.one,
     WEBVTT \o <<" ">> \o Arrow}

InitLines ==
    /\ AppAtRest
    /\ arg \in SeqsUpTo(CaptionLineKinds, MaxCaptionLines)
    /\ ret = <<>>
    /\ pc = "call"

\* both parsers applied to the text of the lines
EvalParsers ==
    /\ pc = "call"
    /\ ret' = [vtt |-> parseVtt(JoinLines(arg)), srt |-> parseSrt(JoinLines(arg))]
    /\ pc' = "return"
    /\ UNCHANGED <<appVars, arg>>

NextLines == EvalParsers

SpecLines == InitLines /\ [][NextLines]_vars

\* the lines of the text under evaluation; the empty text is one empty line
C23_Lines == IF arg = <<>> THEN << <<>> >> ELSE arg

\* the first line the scan looks at: the one after a header line
C23_First == IF StartsWith(C23_Lines[1], WEBVTT) THEN 2 ELSE 1

C23_Blank(k) == Trim(C23_Lines[k]) = <<>>

C23_Arrow(k) == k >= C23_First /\ ~C23_Blank(k) /\ Includes(C23_Lines[k], Arrow)

\* the start and end of the line with the arrow at k, when both parse
C23_Times(k) ==
    LET cue == TimingCue(<<C23_Lines[k]>>, 0, FALSE)
    IN  IF cue = <<>> THEN <<>> ELSE <<<<cue[1].startMs, cue[1].endMs>>>>

\* the k-th smallest member of a set of numbers
C23_Nth(S, n) == CHOOSE k \in S : Cardinality({j \in S : j < k}) = n - 1

\* C23 as stated: in the VTT parser every non-blank line containing the
\* arrow is treated as a timing line and yields its own cue when both sides
\* parse, wherever it occurs, also directly after another timing line with no
\* blank line between.
C23_EveryArrowLineIsTiming ==
    pc = "return" =>
        LET yielding == {k \in 1..Len(C23_Lines) : C23_Arrow(k) /\ C23_Times(k) # <<>>}
        IN  /\ Len(ret.vtt) = Cardinality(yielding)
            /\ \A n \in 1..Len(ret.vtt) :
                  <<ret.vtt[n].startMs, ret.vtt[n].endMs>>
                      = C23_Times(C23_Nth(yielding, n))[1]

\* the lines with the arrow before k that k follows with no blank line between
C23_Led(k) ==
    {j \in C23_First..(k - 1) :
        C23_Arrow(j) /\ \A m \in j..k : ~C23_Blank(m)}

\* a line with the arrow that no earlier line with the arrow leads
C23_IsTiming(k) == C23_Arrow(k) /\ C23_Led(k) = {}

\* the last of the non-blank lines that follow line k directly
C23_TextEnd(k) ==
    MaxOf({e \in k..Len(C23_Lines) : \A m \in (k + 1)..e : ~C23_Blank(m)})

\* C23, amended: a non-blank line containing the arrow is a timing line
\* unless it follows an earlier line containing the arrow with no blank line
\* between; such a following line is text of the earlier line's cue and
\* yields no cue.  Every timing line whose two sides parse yields one cue,
\* in order, whose text is the non-blank lines that follow it directly.
C23_ArrowLineOutsideText ==
    pc = "return" =>
        LET yielding == {k \in 1..Len(C23_Lines) : C23_IsTiming(k) /\ C23_Times(k) # <<>>}
        IN  /\ Len(ret.vtt) = Cardinality(yielding)
            /\ \A n \in 1..Len(ret.vtt) :
                  LET k == C23_Nth(yielding, n)
                  IN  ret.vtt[n] = Cue(C23_Times(k)[1][1], C23_Times(k)[1][2],
                                       JoinLines(SubSeq(C23_Lines, k + 1, C23_TextEnd(k))))

\* two timing lines of the accepted shape with no blank line between gave
\* one cue, the second line being its text
C23_Witness ==
    /\ pc = "return"
    /\ Len(arg) = 2
    /\ C23_Arrow(1) /\ C23_Times(1) # <<>>
    /\ C23_Arrow(2) /\ C23_Times(2) # <<>>
    /\ Len(ret.vtt) = 1
    /\ ret.vtt[1].text = arg[2]

----------------------------------------------------------------------------
(* The previous and next buttons *)

\* const cue = cues[index]; if (!cue) return; player.seekTo(cue.startMs / 1000):
\* ret holds the index asked for and the start, in milliseconds, of the seek
\* the player got, if it got one
seekToCue(index, player) ==
    /\ ret' = <<[index  |-> index,
                 seekTo |-> IF index >= 0 /\ index < Len(cues) /\ player
                            THEN <<cues[index + 1].startMs>> ELSE <<>>]>>
    /\ UNCHANGED <<appVars, arg, pc>>

\* Math.max(0, activeIndex - 1)
prevIndex == IF activeIndex - 1 > 0 THEN activeIndex - 1 ELSE 0

nextIndexUnclamped == activeIndex + 1

\* Math.min(cues.length - 1, activeIndex + 1)
nextIndex == Min(Len(cues) - 1, activeIndex + 1)

\* the buttons, with the player ready or not
SeekPrevious == \E player \in BOOLEAN : seekToCue(prevIndex, player)
SeekNext     == \E player \in BOOLEAN : seekToCue(nextIndex, player)

NextNav == PollTick \/ SetOffset \/ SeekPrevious \/ SeekNext

SpecNav == InitSelect /\ [][NextNav]_vars

\* C24: previous asks for index max(0, active - 1) and next for
\* min(length - 1, active + 1); with cues and no active cue both ask for
\* index 0; a seek goes only to the start of a cue at an index within
\* 0..length-1, and with an empty list no seek is issued.
C24_SeekWithinList ==
    [][ /\ SeekPrevious =>
              ret'[1].index = MaxOf({0, C22_Active - 1})
        /\ SeekNext =>
              ret'[1].index = MinOf({Len(cues) - 1, C22_Active + 1})
        /\ (SeekPrevious \/ SeekNext) =>
              /\ (cues # <<>> /\ C22_Active = -1) => ret'[1].index = 0
              /\ cues = <<>> => ret'[1].seekTo = <<>>
              /\ ret'[1].seekTo # <<>> =>
                    /\ ret'[1].index \in 0..(Len(cues) - 1)
                    /\ ret'[1].seekTo = <<cues[ret'[1].index + 1].startMs>> ]_vars

\* next was pressed with the first of two cues active and the player sought
\* the second one
C24_Witness ==
    /\ Len(cues) = 2
    /\ cues[1].startMs # cues[2].startMs
    /\ C22_Active = 0
    /\ ret # <<>>
    /\ ret[1].index = 1
    /\ ret[1].seekTo = <<cues[2].startMs>>

----------------------------------------------------------------------------
(* The manual timer through a whole session *)

\* C25: whenever the manual timer has completed (it is inactive with the
\* "timing complete, click apply" message), every ManualCue has startMs >= 0
\* and endMs >= 0, and when every tap that closed a cue came later than the
\* tap that opened it, Apply would succeed; for any number n >= 1 of lyric
\* lines, a single line included.
C25_CompleteMeansAllSet ==
    (~manualActive /\ manualMessage = MsgComplete) =>
        /\ \A k \in 1..Len(manualCues) :
              manualCues[k].startMs >= 0 /\ manualCues[k].endMs >= 0
        /\ (\A k \in 1..Len(manualCues) :
               manualCues[k].endMs >= 0 => manualCues[k].endMs > manualCues[k].startMs)
              => C5_Complete(manualCues)

\* C26: while the manual timer is active with current index k, every cue
\* before k has both bounds set, cue k has endMs unset, every cue after k has
\* both bounds unset, and for k > 0 cue k has startMs set; k is within
\* 0..n-1 for the n ManualCues.
C26_SessionShape ==
    manualActive =>
        /\ manualIndex \in 0..(Len(manualCues) - 1)
        /\ \A j \in 0..(Len(manualCues) - 1) :
              /\ j < manualIndex =>
                    manualCues[j + 1].startMs >= 0 /\ manualCues[j + 1].endMs >= 0
              /\ j = manualIndex => manualCues[j + 1].endMs = -1
              /\ j > manualIndex => Unset(manualCues[j + 1])
        /\ manualIndex > 0 => manualCues[manualIndex + 1].startMs >= 0

\* a session of three lines at its last index: two cues closed, the third open
C26_Witness ==
    /\ manualActive
    /\ Len(manualCues) = 3
    /\ manualIndex = 2
    /\ manualCues[2].endMs >= 0
    /\ manualCues[3].startMs >= 0 /\ manualCues[3].endMs = -1

\* every closed cue with a successor ends where the successor starts
C27_Chained(mcs) ==
    \A i \in 1..(Len(mcs) - 1) :
        mcs[i].endMs >= 0 => mcs[i + 1].startMs = mcs[i].endMs

\* C27: in every state of a manual session, each ManualCue i with endMs set
\* and a next cue has cue[i+1].startMs = cue[i].endMs; after a successful
\* Apply each main cue ends exactly where the next one starts and the starts
\* are strictly increasing.
C27_ChainedBoundaries ==
    [][ /\ C27_Chained(manualCues')
        /\ (applyManualCues /\ C5_Complete(manualCues)) =>
              \A i \in 1..(Len(cues') - 1) :
                  /\ cues'[i].endMs = cues'[i + 1].startMs
                  /\ cues'[i].startMs < cues'[i + 1].startMs ]_vars

\* three timed lines were applied: the main cues are the taps 0, 5000, 6000
\* and 8000 chained
C27_Witness ==
    /\ Len(cues) = 3
    /\ cues = manualCues
    /\ cues[1].startMs = 0 /\ cues[1].endMs = 5000
    /\ cues[2].startMs = 5000 /\ cues[2].endMs = 6000
    /\ cues[3].startMs = 6000 /\ cues[3].endMs = 8000

----------------------------------------------------------------------------
(* One session of the manual timer, with the player time available *)

\* a tap for which getPlayerTimeMs returns a time
TapAvailable == \E player \in PlayerReads \ {<<>>} : tapManualSync(player)

\* the timer is started while it is not running; whoever taps goes on tapping
NextSession == SetLyrics \/ (~manualActive /\ Start) \/ Tap \/ Apply

SpecSession == Init /\ [][NextSession]_vars /\ WF_vars(TapAvailable)

\* the successful taps a running session has left at most: n + 1 before
\* the first tap, n - k at index k after it, none when the timer is not active
C28_Remaining ==
    IF ~manualActive THEN 0
    ELSE IF manualCues[1].startMs < 0 THEN Len(manualCues) + 1
    ELSE Len(manualCues) - manualIndex

\* C28: after Start with n >= 1 lyric lines and with the player time
\* available, repeated taps bring the timer to Done after at most n + 1
\* successful taps (every successful tap uses up at least one of the n + 1
\* a started session has, and a running session ends), and during a session
\* the current index never decreases.
C28_TapsTerminate ==
    /\ [][ /\ (Start /\ manualActive') =>
                 /\ Len(manualCues') >= 1
                 /\ C28_Remaining' = Len(manualCues') + 1
           /\ (TapAvailable /\ manualActive) =>
                 /\ C28_Remaining' < C28_Remaining
                 /\ Len(manualCues') = Len(manualCues)
           /\ (manualActive /\ manualActive') => manualIndex' >= manualIndex
           /\ manualActive => C28_Remaining >= 1 ]_vars
    /\ manualActive ~> ~manualActive

\* a session of three lines completed by its fourth tap
C28_Witness ==
    /\ ~manualActive
    /\ manualMessage = MsgComplete
    /\ Len(manualCues) = 3
    /\ manualIndex = 2
    /\ manualCues[3].endMs = 8000

----------------------------------------------------------------------------
(* The aligner with unequal counts *)

\* ts is ls with every line repeated one or more times in place
RECURSIVE C29_Stretches(_, _)
C29_Stretches(ts, ls) ==
    IF ls = <<>> THEN ts = <<>>
    ELSE /\ ts # <<>>
         /\ Head(ts) = Head(ls)
         /\ \/ C29_Stretches(Tail(ts), Tail(ls))
            \/ C29_Stretches(Tail(ts), ls)

\* the lines of the displayText of the cues from the k-th on, one after another
RECURSIVE C29_Flatten(_, _)
C29_Flatten(cs, k) ==
    IF k > Len(cs) THEN <<>>
    ELSE SplitOn(cs[k].twText, <<"\n">>) \o C29_Flatten(cs, k + 1)

\* C29: with different numbers of cues and lyric lines, both at least one,
\* alignment loses no line and keeps the order: every line is in the
\* displayText of a cue, the lines of the cues taken in cue order follow the
\* line order, and every cue gets at least one line.
C29_NoLineLost ==
    (pc = "return" /\ Len(arg.cs) >= 1 /\ Len(arg.ls) >= 1 /\ Len(arg.cs) # Len(arg.ls)) =>
        /\ Len(ret) = Len(arg.cs)
        /\ \A k \in 1..Len(ret) : HasTwText(ret[k]) /\ ret[k].twText # <<>>
        /\ IF Len(arg.cs) > Len(arg.ls)
           THEN C29_Stretches([k \in 1..Len(ret) |-> ret[k].twText], arg.ls)
           ELSE C29_Flatten(ret, 1) = arg.ls

\* three lines have been aligned with two cues
C29_Witness ==
    /\ pc = "return"
    /\ Len(arg.cs) = 2
    /\ arg.ls = <<<<"a">>, <<"b">>, <<"a">>>>
    /\ ret[1].twText = <<"a", "\n", "b">>
    /\ ret[2].twText = <<"a">>

----------------------------------------------------------------------------
(* The SRT fallback *)

\* C30: for every caption input whose first line does not start with WEBVTT,
\* parseSrt returns exactly the cue sequence parseVtt returns; hence in the
\* format selection the SRT fallback never yields cues when the VTT attempt
\* yielded none, and the selection returns what parseVtt returns.
C30_SrtAgreesWithVtt ==
    pc = "return" =>
        /\ ~StartsWith(C23_Lines[1], WEBVTT) => ret.srt = ret.vtt
        /\ LET trimmedVtt == Trim(JoinLines(arg))
           IN  ~StartsWith(trimmedVtt, WEBVTT) =>
                   /\ parseSrt(trimmedVtt) = parseVtt(trimmedVtt)
                   /\ Len(parseVtt(trimmedVtt)) = 0 => Len(parseSrt(trimmedVtt)) = 0
                   /\ ParseCaptions(trimmedVtt) = parseVtt(trimmedVtt)

\* a counter line, a timing line with commas and a text line gave the same
\* single cue from both parsers
C30_Witness ==
    /\ pc = "return"
    /\ Len(arg) = 3
    /\ arg[1] = <<"1">>
    /\ Includes(arg[2], <<",">>)
    /\ arg[3] = <<"x">>
    /\ Len(ret.srt) = 1
    /\ ret.srt[1] = Cue(2500, 3723456, <<"x">>)
    /\ ret.vtt = ret.srt

====
